---- MODULE Spec2Model ----
(***************************************************************************)
(* Model of src/server.js: an Express handler that, per GET /query,        *)
(* opens a SOCKS5 tunnel (SocksClient.createConnection), wraps the         *)
(* connected socket in a Proxy that stubs connect() and once("connect"),   *)
(* hands it to a pg.Client, runs one query and ends the client.            *)
(*                                                                         *)
(* One action is one turn of the Node event loop for one request: the      *)
(* completion of an awaited operation together with everything the code    *)
(* runs synchronously (and in microtasks) after it, up to the next await.  *)
(***************************************************************************)
EXTENDS Integers, Sequences, FiniteSets, TLC

\* ------------------------------------------------------------------ bounds
NumRequests == 2
MaxRows == 1
MaxCalls == 3

Requests == 1..NumRequests

\* Rows a query may return: sequences of at most MaxRows rows.
RowResults == UNION {[1..n -> {"row"}] : n \in 0..MaxRows}

\* Causes reported by the collaborators (socks, pg) when a step fails.
TunnelCauses == {"authRejected", "hostUnreachable"}
OpenCauses == {"handshakeFailed"}
QueryCauses == {"queryRejected"}
EndCauses == {"endFailed"}

VARIABLES
    pc,             \* position of each request's handler
    proxyAnswers,   \* environment: does the SOCKS proxy ever answer this request
    sockets,        \* every net.Socket handed out by createConnection
    stream,         \* the `stream` variable of getProxiedPgClient (line 50)
    clientStream,   \* connectionConfig.stream of the pg.Client of each call
    client,         \* the handler's `client` variable (line 135): assigned or not
    sslMode,        \* connectionConfig.ssl of each call: "unset", "strict", "relaxed"
    cfgRelaxTls,    \* environment: the configuration asked to relax validation
    session,        \* state of the pg.Client of each request
    immediateQ,     \* callbacks queued with setImmediate, in order
    subscribed,     \* once("connect", listener) was called through the adapter
    listenerCalls,  \* how many times that listener has been invoked
    outcome,        \* outcome of each awaited step, per request
    rows,           \* result.rows of the request's query
    response,       \* the HTTP responses sent for each request, in order
    processUp,      \* the Node process has not died of an unhandled rejection
    fixieUrl,       \* process.env.FIXIE_SOCKS_HOST, a string of characters
    loaded,         \* the module's top-level code (lines 30-41) has run
    fixieParts,     \* [fixieUser, fixiePass, fixieHost, fixiePort] once loaded
    proxyOptions,   \* proxyOptions.proxy of each call of getProxiedPgClient
    adTarget,       \* one wrapped socket, as calls made on its Proxy leave it
    adDirect,       \* an identical socket given the forwarded calls directly
    adQueue,        \* listeners of that Proxy queued with setImmediate
    adSubs,         \* the subscriptions a caller made, with their call counts
    adHeld,         \* what the caller's last call returned: Proxy or target
    adCalls         \* how many calls the caller has made

vars == <<pc, proxyAnswers, sockets, stream, clientStream, client, sslMode,
          cfgRelaxTls, session, immediateQ, subscribed, listenerCalls,
          outcome, rows, response, processUp,
          fixieUrl, loaded, fixieParts, proxyOptions,
          adTarget, adDirect, adQueue, adSubs, adHeld, adCalls>>

\* One Proxy-wrapped socket looked at on its own.
adVars == <<adTarget, adDirect, adQueue, adSubs, adHeld, adCalls>>

\* The module-level configuration, fixed once the module has loaded.
cfgVars == <<fixieUrl, loaded, fixieParts>>

Steps == {"tunnel", "open", "query", "end"}

NoOutcome == [s \in Steps |-> "none"]

\* ------------------------------------------------------------ the socket
\* A socket as SocksClient.createConnection resolves it: connected once, by
\* the socks library, on behalf of the request that asked for it.
NewSocket(r) ==
    [state |-> "open", connects |-> 1, teardowns |-> 0,
     createdFor |-> r, usedBy |-> {}]

\* net.Socket.connect invoked on the real socket.
SocketConnect(sock, r) ==
    [sock EXCEPT !.connects = @ + 1, !.usedBy = @ \cup {r}]

\* net.Socket.destroy invoked on the real socket.
SocketDestroy(sock, r) ==
    [sock EXCEPT !.state = "destroyed", !.teardowns = @ + 1,
                 !.usedBy = @ \cup {r}]

\* ----------------------------------------------------------- the adapter
\* Faulty variant: the get trap forwards connect to the target.
AdapterConnectForwards(sock, r) == SocketConnect(sock, r)

\* Proxy get trap, prop === "connect": `() => target`; the target is not
\* touched.
AdapterConnect(sock, r) == sock

\* Faulty variant: the listener is called inside the subscription call.
AdapterOnceSync(event, q, calls, r) ==
    IF event = "connect"
    THEN [queue |-> q, calls |-> calls + 1]
    ELSE [queue |-> q, calls |-> calls]

\* Proxy get trap, prop === "once": for "connect" the listener is handed to
\* setImmediate and not called; other events go to target.once.
AdapterOnce(event, q, calls, r) ==
    IF event = "connect"
    THEN [queue |-> Append(q, r), calls |-> calls]
    ELSE [queue |-> q, calls |-> calls]

\* The members a caller reaches for on the stream, and the events it
\* subscribes to.
Props == {"connect", "once", "on", "write", "destroy"}
Events == {"connect", "error"}

\* The caller of the wrapped socket looked at on its own.
Caller == 1

\* Faulty variant: the subscription patch is applied to `on` as well.
ProxyGetPatchesOn(prop) ==
    IF prop = "connect" THEN "stub"
    ELSE IF prop \in {"once", "on"} THEN "patched"
    ELSE "reflect"

\* The get trap: `connect` is stubbed, `once` is patched, every other
\* property is Reflect.get(target, prop).
ProxyGet(prop) ==
    IF prop = "connect" THEN "stub"
    ELSE IF prop = "once" THEN "patched"
    ELSE "reflect"

\* What the stub and the patched once return: `target`, the socket itself.
SubstituteReturns == "target"

\* A socket together with the listeners registered on it and the number of
\* writes it was given.
WrappedSocket == [sock |-> NewSocket(Caller), listeners |-> {}, writes |-> 0]

\* A member of the socket itself invoked: connect, once, on, write, destroy.
SocketApply(t, prop, event, id) ==
    CASE prop = "connect" -> [t EXCEPT !.sock = SocketConnect(@, Caller)]
      [] prop = "once" ->
            [t EXCEPT !.listeners = @ \cup {[id |-> id, event |-> event, once |-> TRUE]}]
      [] prop = "on" ->
            [t EXCEPT !.listeners = @ \cup {[id |-> id, event |-> event, once |-> FALSE]}]
      [] prop = "write" -> [t EXCEPT !.writes = @ + 1]
      [] prop = "destroy" -> [t EXCEPT !.sock = SocketDestroy(@, Caller)]

\* The socket emits `event`: one-time listeners of it are removed.
SocketEmit(t, event) ==
    [t EXCEPT !.listeners = {l \in @ : ~(l.event = event /\ l.once)},
              !.sock.state = "destroyed"]

\* ------------------------------------------------------------- variables
\* Faulty variant: `stream` declared at module level, shared by all calls.
StreamSlotShared(r) == CHOOSE x \in Requests : \A y \in Requests : x <= y

\* `let stream` is declared inside the promise executor: one per call.
StreamSlot(r) == r

\* connectionConfig.ssl.rejectUnauthorized, a literal.
RejectUnauthorized == FALSE

\* --------------------------------------------------- proxy configuration
\* A string is a sequence of one-character strings.
Chars(str) == {str[i] : i \in DOMAIN str}

\* What an array slot or a variable holds when nothing was assigned to it.
Undefined == <<"undefined">>

\* The fields descriptors are built from: empty, a letter, a digit, and a
\* digit followed by a letter.
FieldStrings == {<<>>, <<"u">>, <<"8">>, <<"8", "u">>}

Separators == {<<":">>, <<"@">>}

SchemePrefix == <<"s", ":", "/", "/">>

\* user:pass@host:port
Descriptor(user, pass, host, port) ==
    user \o <<":">> \o pass \o <<"@">> \o host \o <<":">> \o port

\* The values FIXIE_SOCKS_HOST is drawn from: four fields (any of them
\* possibly empty) joined by ':' or '@', with or without a scheme prefix.
Descriptors ==
    {pre \o f1 \o s1 \o f2 \o s2 \o f3 \o s3 \o f4 :
        pre \in {<<>>, SchemePrefix},
        f1 \in FieldStrings, f2 \in FieldStrings,
        f3 \in FieldStrings, f4 \in FieldStrings,
        s1 \in Separators, s2 \in Separators, s3 \in Separators}

\* The descriptor of the documented format (line 35) the server runs with
\* when the requests are what is looked at.
DefaultUrl == Descriptor(<<"u">>, <<"u">>, <<"u">>, <<"8">>)

\* Faulty variant: the descriptor is split at ':' only.
IsDelimiterColonOnly(c) == c = ":"

\* The character class of the regular expression /[:@]/.
IsDelimiter(c) == c \in {":", "@"}

\* String.prototype.split(/[:@]/): the pieces between delimiters, empty
\* pieces included; a string without delimiter is one piece.
RECURSIVE SplitFrom(_, _, _)
SplitFrom(str, i, piece) ==
    IF i > Len(str) THEN <<piece>>
    ELSE IF IsDelimiter(str[i]) THEN <<piece>> \o SplitFrom(str, i + 1, <<>>)
    ELSE SplitFrom(str, i + 1, Append(piece, str[i]))

Split(str) == SplitFrom(str, 1, <<>>)

\* .filter(v => v.length > 0)
FilterNonEmpty(pieces) == SelectSeq(pieces, LAMBDA v : Len(v) > 0)

\* const [fixieUser, fixiePass, fixieHost, fixiePort] = fixieParts: the
\* first four elements, undefined where the array is shorter.
Destructure(parts) ==
    [i \in 1..4 |-> IF i <= Len(parts) THEN parts[i] ELSE Undefined]

\* fixieUrl.split(/[:@]/).filter(v => v.length > 0), destructured.
ParseFixieUrl(url) == Destructure(FilterNonEmpty(Split(url)))

DigitChars == <<"0", "1", "2", "3", "4", "5", "6", "7", "8", "9">>

IsDigit(c) == \E d \in DOMAIN DigitChars : DigitChars[d] = c

DigitValue(c) == (CHOOSE d \in DOMAIN DigitChars : DigitChars[d] = c) - 1

\* parseInt(str, 10) on the characters of the model: the value of the
\* longest prefix of digits, NaN when there is none (or str is undefined).
\* parseInt's "not a number", kept apart from every value digits can have.
NaN == -1

RECURSIVE ParseIntFrom(_, _, _)
ParseIntFrom(str, i, acc) ==
    IF i <= Len(str) /\ IsDigit(str[i])
    THEN ParseIntFrom(str, i + 1, acc * 10 + DigitValue(str[i]))
    ELSE acc

ParseInt(str) ==
    IF str = Undefined \/ str = <<>> \/ ~IsDigit(str[1])
    THEN NaN
    ELSE ParseIntFrom(str, 1, 0)

\* proxyOptions.proxy as getProxiedPgClient builds it from the module's
\* fixieUser, fixiePass, fixieHost and fixiePort.
BuildProxyOptions(parts) ==
    [ipaddress |-> parts[3], port |-> ParseInt(parts[4]), type |-> 5,
     userId |-> parts[1], password |-> parts[2]]

NoProxyOptions == [ipaddress |-> Undefined, port |-> NaN, type |-> 0,
                   userId |-> Undefined, password |-> Undefined]

\* ------------------------------------------------------------- responses
\* res.json({status: 'success', message, data: result.rows}), HTTP 200.
SuccessResponse(rws) ==
    [code |-> 200, status |-> "success",
     message |-> "Database query executed successfully via SOCKS proxy.",
     data |-> rws]

\* res.status(500).json({status: 'error', message, details: error.message}).
ErrorResponse(msg) ==
    [code |-> 500, status |-> "error",
     message |-> "Failed to execute database query.",
     details |-> msg]

\* new Error(`SOCKS proxy connection failed: ${err.message}`)
TunnelErrorMessage(cause) == <<"SOCKS proxy connection failed: ", cause>>

\* The pg error is rejected as it is: reject(err), or thrown by client.query.
PgErrorMessage(cause) == <<cause>>

\* Faulty variant: the query is awaited outside the try block.
HandlerCatchesNoQuery(step) == step \in {"tunnel", "open"}

\* Faulty variant: the call of getProxiedPgClient is awaited outside the try
\* block, so a failed open is not caught.
HandlerCatchesNoOpen(step) == step \in {"tunnel", "query"}

\* The try block of the handler spans getProxiedPgClient and client.query.
HandlerCatches(step) == step \in {"tunnel", "open", "query"}

\* Faulty variant: finally ends the client of the call whether or not it was handed
\* to the handler.
FinallyEndsAlways(r) == TRUE

\* `if (client)` in the finally block.
FinallyEnds(r) == client[r]

\* Faulty variant: the catch around client.end() answers the request again.
OnEndErrorResponds(resps, cause) == Append(resps, ErrorResponse(PgErrorMessage(cause)))

\* catch (endErr): console.error only.
OnEndError(resps, cause) == resps

\* client.end() called on the client's stream: teardown of the connection
\* starts; the socket is gone once end() has completed.
ClientEnd(sock, r) ==
    [sock EXCEPT !.teardowns = @ + 1, !.usedBy = @ \cup {r}]

\* ----------------------------------------------------------------- Init
\* No request has arrived yet.
HandlerInit ==
    /\ pc = [r \in Requests |-> "idle"]
    /\ proxyAnswers = [r \in Requests |-> TRUE]
    /\ sockets = <<>>
    /\ stream = [r \in Requests |-> 0]
    /\ clientStream = [r \in Requests |-> 0]
    /\ client = [r \in Requests |-> FALSE]
    /\ sslMode = [r \in Requests |-> "unset"]
    /\ cfgRelaxTls \in BOOLEAN
    /\ session = [r \in Requests |-> "Idle"]
    /\ immediateQ = <<>>
    /\ subscribed = [r \in Requests |-> FALSE]
    /\ listenerCalls = [r \in Requests |-> 0]
    /\ outcome = [r \in Requests |-> NoOutcome]
    /\ rows = [r \in Requests |-> <<>>]
    /\ response = [r \in Requests |-> <<>>]
    /\ processUp = TRUE
    /\ proxyOptions = [r \in Requests |-> NoProxyOptions]

\* A connected socket has just been wrapped; nothing was called on it.
AdapterInit ==
    /\ adTarget = WrappedSocket
    /\ adDirect = WrappedSocket
    /\ adQueue = <<>>
    /\ adSubs = <<>>
    /\ adHeld = "proxy"
    /\ adCalls = 0

\* The server is up: the module has loaded with a descriptor of the
\* documented format.
Init ==
    /\ HandlerInit
    /\ AdapterInit
    /\ fixieUrl = DefaultUrl
    /\ loaded = TRUE
    /\ fixieParts = ParseFixieUrl(fixieUrl)

\* The process is started with any descriptor; the module has not run yet.
ConfigInit ==
    /\ HandlerInit
    /\ AdapterInit
    /\ fixieUrl \in Descriptors
    /\ loaded = FALSE
    /\ fixieParts = Destructure(<<>>)

\* ------------------------------------------------------- handler pieces
\* An error thrown at `step` inside the handler: the catch block answers
\* 500; an error no catch covers is an unhandled rejection.
Throw(r, step, msg) ==
    IF HandlerCatches(step)
    THEN /\ response' = [response EXCEPT ![r] = Append(@, ErrorResponse(msg))]
         /\ processUp' = processUp
    ELSE /\ response' = response
         /\ processUp' = FALSE

\* The finally block, run on the sockets and sessions as the turn has left
\* them: client.end() is called and awaited when `client` is set.
Finally(r, socks, sess) ==
    IF FinallyEnds(r) /\ clientStream[r] # 0
    THEN /\ sockets' = [socks EXCEPT ![clientStream[r]] = ClientEnd(@, r)]
         /\ session' = [sess EXCEPT ![r] = "Closing"]
         /\ pc' = [pc EXCEPT ![r] = "ending"]
    ELSE /\ sockets' = socks
         /\ session' = sess
         /\ pc' = [pc EXCEPT ![r] = "done"]

\* -------------------------------------------------------------- actions
\* GET /query arrives: the handler calls getProxiedPgClient, which builds
\* proxyOptions and awaits SocksClient.createConnection.
Receive(r) ==
    /\ UNCHANGED adVars
    /\ processUp
    /\ loaded
    /\ pc[r] = "idle"
    /\ pc' = [pc EXCEPT ![r] = "tunnel"]
    /\ proxyOptions' = [proxyOptions EXCEPT ![r] = BuildProxyOptions(fixieParts)]
    /\ UNCHANGED cfgVars
    /\ \E b \in BOOLEAN : proxyAnswers' = [proxyAnswers EXCEPT ![r] = b]
    /\ UNCHANGED <<sockets, stream, clientStream, client, sslMode, cfgRelaxTls,
                   session, immediateQ, subscribed, listenerCalls, outcome,
                   rows, response, processUp>>

\* createConnection resolves: the socket is wrapped, the pg.Client is built
\* on it and client.connect() is called; pg calls stream.connect() and
\* stream.once("connect", listener) on the wrapped socket.
TunnelOk(r) ==
    /\ UNCHANGED adVars
    /\ processUp
    /\ UNCHANGED <<cfgVars, proxyOptions>>
    /\ pc[r] = "tunnel"
    /\ proxyAnswers[r]
    /\ LET s == Len(sockets) + 1
           slot == StreamSlot(r)
           sock == AdapterConnect(NewSocket(r), r)
           sub == AdapterOnce("connect", immediateQ, listenerCalls[r], r)
       IN /\ sockets' = Append(sockets, sock)
          /\ stream' = [stream EXCEPT ![slot] = s]
          /\ clientStream' = [clientStream EXCEPT ![r] = s]
          /\ immediateQ' = sub.queue
          /\ listenerCalls' = [listenerCalls EXCEPT ![r] = sub.calls]
    /\ sslMode' = [sslMode EXCEPT
                     ![r] = IF RejectUnauthorized THEN "strict" ELSE "relaxed"]
    /\ subscribed' = [subscribed EXCEPT ![r] = TRUE]
    /\ session' = [session EXCEPT ![r] = "Connecting"]
    /\ outcome' = [outcome EXCEPT ![r].tunnel = "ok"]
    /\ pc' = [pc EXCEPT ![r] = "open"]
    /\ UNCHANGED <<proxyAnswers, client, cfgRelaxTls, rows, response, processUp>>

\* createConnection rejects: getProxiedPgClient rejects with the wrapped
\* error, the handler's catch answers, finally finds no client.
TunnelFail(r) ==
    /\ UNCHANGED adVars
    /\ processUp
    /\ UNCHANGED <<cfgVars, proxyOptions>>
    /\ pc[r] = "tunnel"
    /\ proxyAnswers[r]
    /\ \E cause \in TunnelCauses : Throw(r, "tunnel", TunnelErrorMessage(cause))
    /\ outcome' = [outcome EXCEPT ![r].tunnel = "fail"]
    /\ Finally(r, sockets, session)
    /\ UNCHANGED <<proxyAnswers, stream, clientStream, client, sslMode,
                   cfgRelaxTls, immediateQ, subscribed, listenerCalls, rows>>

\* The event loop runs the oldest callback queued with setImmediate.
RunImmediate ==
    /\ UNCHANGED adVars
    /\ processUp
    /\ UNCHANGED <<cfgVars, proxyOptions>>
    /\ immediateQ # <<>>
    /\ listenerCalls' = [listenerCalls EXCEPT ![Head(immediateQ)] = @ + 1]
    /\ immediateQ' = Tail(immediateQ)
    /\ UNCHANGED <<pc, proxyAnswers, sockets, stream, clientStream, client,
                   sslMode, cfgRelaxTls, session, subscribed, outcome, rows,
                   response, processUp>>

\* client.connect calls back without error: the promise resolves, the
\* handler stores the client and issues the query.
OpenOk(r) ==
    /\ UNCHANGED adVars
    /\ processUp
    /\ UNCHANGED <<cfgVars, proxyOptions>>
    /\ pc[r] = "open"
    /\ listenerCalls[r] >= 1
    /\ client' = [client EXCEPT ![r] = TRUE]
    /\ session' = [session EXCEPT ![r] = "Querying"]
    /\ outcome' = [outcome EXCEPT ![r].open = "ok"]
    /\ pc' = [pc EXCEPT ![r] = "query"]
    /\ UNCHANGED <<proxyAnswers, sockets, stream, clientStream, sslMode,
                   cfgRelaxTls, immediateQ, subscribed, listenerCalls, rows,
                   response, processUp>>

\* client.connect calls back with an error: stream.destroy(), reject(err);
\* the handler's catch answers, finally finds no client.
OpenFail(r) ==
    /\ UNCHANGED adVars
    /\ processUp
    /\ UNCHANGED <<cfgVars, proxyOptions>>
    /\ pc[r] = "open"
    /\ \E cause \in OpenCauses : Throw(r, "open", PgErrorMessage(cause))
    /\ outcome' = [outcome EXCEPT ![r].open = "fail"]
    /\ LET s == stream[StreamSlot(r)]
       IN Finally(r, [sockets EXCEPT ![s] = SocketDestroy(@, r)],
                  [session EXCEPT ![r] = "Closed"])
    /\ UNCHANGED <<proxyAnswers, stream, clientStream, client, sslMode,
                   cfgRelaxTls, immediateQ, subscribed, listenerCalls, rows>>

\* client.query resolves: the rows are sent with HTTP 200, then finally
\* calls client.end() and awaits it.
QueryOk(r) ==
    /\ UNCHANGED adVars
    /\ processUp
    /\ UNCHANGED <<cfgVars, proxyOptions>>
    /\ pc[r] = "query"
    /\ \E rws \in RowResults :
          /\ rows' = [rows EXCEPT ![r] = rws]
          /\ response' = [response EXCEPT ![r] = Append(@, SuccessResponse(rws))]
    /\ outcome' = [outcome EXCEPT ![r].query = "ok"]
    /\ Finally(r, sockets, [session EXCEPT ![r] = "Connected"])
    /\ UNCHANGED <<proxyAnswers, stream, clientStream, client, sslMode,
                   cfgRelaxTls, immediateQ, subscribed, listenerCalls, processUp>>

\* client.query rejects: the catch answers 500, then finally calls
\* client.end() and awaits it.
QueryFail(r) ==
    /\ UNCHANGED adVars
    /\ processUp
    /\ UNCHANGED <<cfgVars, proxyOptions>>
    /\ pc[r] = "query"
    /\ \E cause \in QueryCauses : Throw(r, "query", PgErrorMessage(cause))
    /\ outcome' = [outcome EXCEPT ![r].query = "fail"]
    /\ Finally(r, sockets, [session EXCEPT ![r] = "Connected"])
    /\ UNCHANGED <<proxyAnswers, stream, clientStream, client, sslMode,
                   cfgRelaxTls, immediateQ, subscribed, listenerCalls, rows>>

\* client.end() resolves: the connection is closed and its stream gone.
EndOk(r) ==
    /\ UNCHANGED adVars
    /\ processUp
    /\ UNCHANGED <<cfgVars, proxyOptions>>
    /\ pc[r] = "ending"
    /\ sockets' = [sockets EXCEPT ![clientStream[r]].state = "destroyed"]
    /\ session' = [session EXCEPT ![r] = "Closed"]
    /\ outcome' = [outcome EXCEPT ![r].end = "ok"]
    /\ pc' = [pc EXCEPT ![r] = "done"]
    /\ UNCHANGED <<proxyAnswers, stream, clientStream, client, sslMode,
                   cfgRelaxTls, immediateQ, subscribed, listenerCalls, rows,
                   response, processUp>>

\* client.end() rejects: the error is logged. The handler does nothing
\* more with the stream, which the failed end() may or may not have closed.
EndFail(r) ==
    /\ UNCHANGED adVars
    /\ processUp
    /\ UNCHANGED <<cfgVars, proxyOptions>>
    /\ pc[r] = "ending"
    /\ \E cause \in EndCauses :
          response' = [response EXCEPT ![r] = OnEndError(@, cause)]
    /\ \E st \in {"open", "destroyed"} :
          /\ sockets' = [sockets EXCEPT ![clientStream[r]].state =
                            IF @ = "destroyed" THEN @ ELSE st]
          /\ session' = [session EXCEPT
                            ![r] = IF st = "destroyed" THEN "Closed" ELSE @]
    /\ outcome' = [outcome EXCEPT ![r].end = "fail"]
    /\ pc' = [pc EXCEPT ![r] = "done"]
    /\ UNCHANGED <<proxyAnswers, stream, clientStream, client, sslMode,
                   cfgRelaxTls, immediateQ, subscribed, listenerCalls, rows,
                   processUp>>

\* The module's top-level code: the descriptor is split and destructured.
\* Nothing is validated and nothing is thrown for a string.
LoadModule ==
    /\ UNCHANGED adVars
    /\ ~loaded
    /\ loaded' = TRUE
    /\ fixieParts' = ParseFixieUrl(fixieUrl)
    /\ UNCHANGED <<pc, proxyAnswers, sockets, stream, clientStream, client,
                   sslMode, cfgRelaxTls, session, immediateQ, subscribed,
                   listenerCalls, outcome, rows, response, processUp,
                   fixieUrl, proxyOptions>>

\* Completion of whatever request r is awaiting.
Complete(r) ==
    \/ TunnelOk(r)
    \/ TunnelFail(r)
    \/ OpenOk(r)
    \/ OpenFail(r)
    \/ QueryOk(r)
    \/ QueryFail(r)
    \/ EndOk(r)
    \/ EndFail(r)

Next ==
    \/ \E r \in Requests : Receive(r)
    \/ \E r \in Requests : TunnelOk(r)
    \/ \E r \in Requests : TunnelFail(r)
    \/ RunImmediate
    \/ \E r \in Requests : OpenOk(r)
    \/ \E r \in Requests : OpenFail(r)
    \/ \E r \in Requests : QueryOk(r)
    \/ \E r \in Requests : QueryFail(r)
    \/ \E r \in Requests : EndOk(r)
    \/ \E r \in Requests : EndFail(r)

Spec == Init /\ [][Next]_vars

\* Start-up with an arbitrary descriptor, up to the tunnel attempts of the
\* requests that arrive.
ConfigNext ==
    \/ LoadModule
    \/ \E r \in Requests : Receive(r)

ConfigSpec == ConfigInit /\ [][ConfigNext]_vars

\* Everything of the server outside the wrapped socket looked at on its own.
serverVars == <<pc, proxyAnswers, sockets, stream, clientStream, client,
                sslMode, cfgRelaxTls, session, immediateQ, subscribed,
                listenerCalls, outcome, rows, response, processUp,
                fixieUrl, loaded, fixieParts, proxyOptions>>

\* A subscription as the caller made it: which member, which event, on
\* which object, and how often its listener has run.
Subscription(prop, event, via) ==
    [prop |-> prop, event |-> event, via |-> via, calls |-> 0]

\* The caller's record of a call: subscriptions are remembered.
Remember(subs, prop, event, via) ==
    IF prop \in {"once", "on"}
    THEN Append(subs, Subscription(prop, event, via))
    ELSE subs

\* The caller invokes stream[prop](...) on the Proxy.
CallProxy(prop, event) ==
    /\ adCalls < MaxCalls
    /\ adCalls' = adCalls + 1
    /\ LET id == Len(adSubs) + 1
           kind == ProxyGet(prop)
       IN CASE kind = "stub" ->
                 /\ adTarget' = [adTarget EXCEPT !.sock = AdapterConnect(@, Caller)]
                 /\ adDirect' = adDirect
                 /\ adQueue' = adQueue
                 /\ adSubs' = Remember(adSubs, prop, event, "proxy")
                 /\ adHeld' = SubstituteReturns
            [] kind = "patched" /\ event = "connect" ->
                 LET res == AdapterOnce(event, adQueue, 0, id)
                 IN /\ adQueue' = res.queue
                    /\ adSubs' = Append(adSubs,
                          [Subscription(prop, event, "proxy") EXCEPT !.calls = res.calls])
                    /\ adTarget' = adTarget
                    /\ adDirect' = adDirect
                    /\ adHeld' = SubstituteReturns
            [] kind = "patched" /\ event # "connect" ->
                 /\ adTarget' = SocketApply(adTarget, "once", event, id)
                 /\ adDirect' = SocketApply(adDirect, prop, event, id)
                 /\ adQueue' = adQueue
                 /\ adSubs' = Remember(adSubs, prop, event, "proxy")
                 /\ adHeld' = SubstituteReturns
            [] kind = "reflect" ->
                 /\ adTarget' = SocketApply(adTarget, prop, event, id)
                 /\ adDirect' = SocketApply(adDirect, prop, event, id)
                 /\ adQueue' = adQueue
                 /\ adSubs' = Remember(adSubs, prop, event, "proxy")
                 /\ adHeld' = "proxy"
    /\ UNCHANGED serverVars

\* The caller chains a call on the value its last call returned, when that
\* value is the socket itself.
CallReturned(prop, event) ==
    /\ adCalls < MaxCalls
    /\ adHeld = "target"
    /\ adCalls' = adCalls + 1
    /\ LET id == Len(adSubs) + 1
       IN /\ adTarget' = SocketApply(adTarget, prop, event, id)
          /\ adDirect' = SocketApply(adDirect, prop, event, id)
          /\ adSubs' = Remember(adSubs, prop, event, "target")
    /\ UNCHANGED <<adQueue, adHeld>>
    /\ UNCHANGED serverVars

\* The event loop runs the oldest listener queued by the patched once.
AdapterRunImmediate ==
    /\ adQueue # <<>>
    /\ adSubs' = [adSubs EXCEPT ![Head(adQueue)].calls = @ + 1]
    /\ adQueue' = Tail(adQueue)
    /\ UNCHANGED <<adTarget, adDirect, adHeld, adCalls>>
    /\ UNCHANGED serverVars

\* The connected socket fails: it emits "error" to the listeners registered
\* on it and is closed. "connect" has fired before the socket was wrapped
\* and is never emitted again.
SocketError ==
    /\ adTarget.sock.state = "open"
    /\ adSubs' = [i \in DOMAIN adSubs |->
                    IF \E l \in adTarget.listeners : l.id = i /\ l.event = "error"
                    THEN [adSubs[i] EXCEPT !.calls = @ + 1]
                    ELSE adSubs[i]]
    /\ adTarget' = SocketEmit(adTarget, "error")
    /\ adDirect' = SocketEmit(adDirect, "error")
    /\ UNCHANGED <<adQueue, adHeld, adCalls>>
    /\ UNCHANGED serverVars

AdapterNext ==
    \/ \E prop \in Props, event \in Events : CallProxy(prop, event)
    \/ \E prop \in Props, event \in Events : CallReturned(prop, event)
    \/ AdapterRunImmediate
    \/ SocketError

\* Any caller, making any calls on one wrapped socket.
AdapterSpec == Init /\ [][AdapterNext]_vars

\* The server up with its default configuration: no action reads the
\* flag, so scheduling is the same with it set.
FairInit == Init /\ cfgRelaxTls = FALSE

\* The event loop runs every queued callback, and every operation the
\* collaborators have accepted completes unless the proxy is silent.
FairSpec ==
    /\ FairInit
    /\ [][Next]_vars
    /\ WF_vars(RunImmediate)
    /\ \A r \in Requests : WF_vars(Complete(r))

\* ------------------------------------------------------------ properties
\* The sockets createConnection handed out for request r.
SocketsOf(r) == {i \in DOMAIN sockets : sockets[i].createdFor = r}

\* Request r owns a socket that has not been destroyed.
HasOpenSocket(r) == \E i \in SocketsOf(r) : sockets[i].state = "open"

\* The handler of r has sent a response with this HTTP code.
Answered(r, code) == Len(response[r]) >= 1 /\ response[r][1].code = code

\* What the outcomes of r's own tunnel, open and query steps call for.
AllSucceeded(r) ==
    outcome[r].tunnel = "ok" /\ outcome[r].open = "ok" /\ outcome[r].query = "ok"

SomeFailed(r) ==
    outcome[r].tunnel = "fail" \/ outcome[r].open = "fail" \/ outcome[r].query = "fail"

\* C1: once a request's handling is over (whatever its steps' outcomes),
\* no tunnel stream created for it is still open.
C1_NoStreamOutlivesRequest ==
    \A r \in Requests : pc[r] = "done" => ~HasOpenSocket(r)

\* C2: the listener subscribed through the adapter's once("connect") is
\* never invoked inside the subscription call, is invoked at most once, only
\* after the subscription, and is eventually invoked.
C2_ListenerOnceAsync ==
    /\ [](\A r \in Requests :
            /\ listenerCalls[r] <= 1
            /\ (listenerCalls[r] = 1 => subscribed[r]))
    /\ [][\A r \in Requests :
            (~subscribed[r] /\ subscribed'[r]) => listenerCalls'[r] = 0]_vars
    /\ \A r \in Requests : subscribed[r] ~> (listenerCalls[r] = 1)

C2_Witness ==
    \E r \in Requests : subscribed[r] /\ listenerCalls[r] = 1 /\ immediateQ = <<>>

\* C3: the connect call pg makes on the adapted stream during session open
\* never reaches the socket: every tunnel socket has been connected exactly
\* once (by the tunnel), and only its teardown ever touches it.
C3_NoDoubleConnect ==
    \A i \in DOMAIN sockets :
        /\ sockets[i].connects = 1
        /\ (sockets[i].teardowns = 0 => sockets[i].usedBy = {})

C3_Witness ==
    \E r \in Requests :
        /\ session[r] = "Querying"
        /\ stream[r] # 0
        /\ sockets[stream[r]].connects = 1

\* C4: a request is answered at most once, and once its steps are over
\* exactly once: 200/"success" with the query's rows exactly when tunnel,
\* open and query all succeeded, 500/"error" when one of them failed; the
\* process stays up and requests not yet received can still be received.
C4_ExactlyOneResponse ==
    /\ processUp
    /\ \A r \in Requests :
        /\ Len(response[r]) <= 1
        /\ (Len(response[r]) = 1 <=> pc[r] \in {"ending", "done"})
        /\ (Len(response[r]) = 1 =>
              /\ (AllSucceeded(r) <=> response[r][1].code = 200)
              /\ (SomeFailed(r) <=> response[r][1].code = 500)
              /\ (response[r][1].code = 200 =>
                    /\ response[r][1].status = "success"
                    /\ response[r][1].data = rows[r])
              /\ (response[r][1].code = 500 => response[r][1].status = "error"))
        /\ (pc[r] = "idle" => ENABLED Receive(r))

C4_Witness ==
    \E r1, r2 \in Requests :
        /\ pc[r1] = "done" /\ Answered(r1, 500) /\ outcome[r1].query = "fail"
        /\ pc[r2] = "done" /\ Answered(r2, 200) /\ Len(rows[r2]) = MaxRows

\* C5: from the state in which a request's HTTP 500 is sent onward, no
\* tunnel socket opened for it is open.
C5_NoSocketAfterError ==
    \A r \in Requests : Answered(r, 500) => ~HasOpenSocket(r)

\* C6: the teardown of a request's stream is performed at most once on
\* every path, and no close raises on a session whose open failed: the
\* handler never closes such a session.
C6_TeardownAtMostOnce ==
    /\ \A i \in DOMAIN sockets : sockets[i].teardowns <= 1
    /\ \A r \in Requests :
        outcome[r].open = "fail" =>
            /\ outcome[r].end = "none"
            /\ pc[r] = "done"

C6_Witness ==
    \E r1, r2 \in Requests :
        /\ outcome[r1].open = "fail" /\ pc[r1] = "done"
        /\ sockets[stream[r1]].teardowns = 1
        /\ outcome[r2].end = "ok" /\ pc[r2] = "done"
        /\ sockets[stream[r2]].teardowns = 1

\* C7: a request whose tunnel establishment is under way eventually gets
\* its response, even when the proxy never answers.
C7_TunnelTimesOut ==
    \A r \in Requests : (pc[r] = "tunnel") ~> (Len(response[r]) = 1)

\* C8: each request has at most one tunnel stream, of its own; a stream is
\* connected, ended or destroyed only by the request it was created for;
\* the response of a request is the one its own outcomes call for.
C8_RequestsIsolated ==
    /\ \A i \in DOMAIN sockets : sockets[i].usedBy \subseteq {sockets[i].createdFor}
    /\ \A r \in Requests :
        /\ Cardinality(SocketsOf(r)) <= 1
        /\ (stream[r] # 0 => stream[r] \in SocketsOf(r))
        /\ (clientStream[r] # 0 => clientStream[r] \in SocketsOf(r))
        /\ (Len(response[r]) >= 1 =>
              response[r][1].code = IF AllSucceeded(r) THEN 200 ELSE 500)
    /\ \A r1, r2 \in Requests :
        (r1 # r2 /\ stream[r1] # 0) => stream[r1] # stream[r2]

C8_Witness ==
    \E r1, r2 \in Requests :
        /\ r1 # r2
        /\ pc[r1] = "done" /\ outcome[r1].open = "fail"
        /\ pc[r2] = "ending" /\ Answered(r2, 200)
        /\ sockets[stream[r2]].state = "open"
        /\ stream[r1] > stream[r2]

\* C9: a session is opened with certificate validation relaxed only if the
\* configuration asked for it.
C9_RelaxOnlyWhenConfigured ==
    \A r \in Requests : sslMode[r] = "relaxed" => cfgRelaxTls

\* C10: when client.end() fails, the step in which it fails leaves the
\* request's responses exactly as they were when cleanup began (nothing is
\* replaced, nothing is added), ends the handler, and the failure does not
\* escape it; the request still has its one response.
C10_CleanupFailureMasksNothing ==
    /\ [][\A r \in Requests :
            (pc[r] = "ending" /\ outcome'[r].end = "fail") =>
                /\ response'[r] = response[r]
                /\ pc'[r] = "done"
                /\ processUp']_vars
    /\ [](\A r \in Requests :
            outcome[r].end = "fail" =>
                /\ Len(response[r]) = 1
                /\ (AllSucceeded(r) <=> response[r][1].code = 200))

C10_Witness ==
    \E r1, r2 \in Requests :
        /\ outcome[r1].end = "fail" /\ Answered(r1, 200)
        /\ outcome[r2].end = "fail" /\ Answered(r2, 500)

\* The layer whose step failed for request r.
FailedLayer(r) ==
    IF outcome[r].tunnel = "fail" THEN "tunnel"
    ELSE IF outcome[r].open = "fail" THEN "session"
    ELSE IF outcome[r].query = "fail" THEN "query"
    ELSE "none"

\* The layer an error response names: the tunnel's wrapper text is the only
\* classification the code ever adds to error.message; the body's message
\* is the same fixed text for every failure.
ReportedLayer(resp) ==
    IF Len(resp.details) = 2 /\ resp.details[1] = "SOCKS proxy connection failed: "
    THEN "tunnel"
    ELSE "unclassified"

\* The sockets on which a teardown (destroy or end) is issued in this step.
TornDownInStep ==
    {i \in DOMAIN sockets' :
        IF i \in DOMAIN sockets
        THEN sockets'[i].teardowns > sockets[i].teardowns
        ELSE sockets'[i].teardowns > 0}

\* C11: once a session open has failed, the request's tunnel stream is
\* destroyed by the time the failure is reported, the failure is reported
\* as a session error, and no query is ever issued on the failed session.
C11_OpenFailureDestroysAndReports ==
    \A r \in Requests :
        outcome[r].open = "fail" =>
            /\ ~HasOpenSocket(r)
            /\ outcome[r].query = "none"
            /\ session[r] = "Closed"
            /\ Len(response[r]) = 1
            /\ ReportedLayer(response[r][1]) = "session"

\* C15: the error reported for a failing request names the layer that
\* failed and still contains the message of the underlying cause.
C15_ErrorNamesLayerAndCause ==
    \A r \in Requests :
        Answered(r, 500) =>
            /\ ReportedLayer(response[r][1]) = FailedLayer(r)
            /\ response[r][1].details[Len(response[r][1].details)] \in
                  TunnelCauses \cup OpenCauses \cup QueryCauses

\* C16: within one request, open starts only once the tunnel is
\* established, the query is issued only on a session whose open has
\* succeeded and at most once, and end or destroy is issued on a stream only
\* when no open or query of the stream's request is outstanding.
C16_StepsOrderedNoOverlap ==
    [][/\ \A r \in Requests :
            /\ (pc'[r] = "open" /\ pc[r] # "open") =>
                  /\ pc[r] = "tunnel"
                  /\ outcome'[r].tunnel = "ok"
                  /\ sockets'[clientStream'[r]].state = "open"
            /\ (pc'[r] = "query" /\ pc[r] # "query") =>
                  /\ pc[r] = "open"
                  /\ outcome'[r].open = "ok"
                  /\ outcome[r].query = "none"
                  /\ listenerCalls[r] = 1
                  /\ sockets[clientStream[r]].state = "open"
            /\ (pc[r] = "query" /\ pc'[r] # "query") =>
                  pc'[r] \in {"ending", "done"}
       /\ \A i \in TornDownInStep :
            pc'[sockets'[i].createdFor] \in {"ending", "done"}]_vars

C16_Witness ==
    \E r1, r2 \in Requests :
        /\ pc[r1] = "done" /\ outcome[r1].end = "ok"
        /\ pc[r2] = "done" /\ outcome[r2].open = "fail"
        /\ sockets[stream[r2]].teardowns = 1

\* C19: a request whose proxy answers, and whose awaited operations each
\* complete, eventually has sent its one response and finished its cleanup.
C19_EveryRequestFinishes ==
    \A r \in Requests :
        (pc[r] # "idle" /\ proxyAnswers[r]) ~>
            (pc[r] = "done" /\ Len(response[r]) = 1)

C19_Witness ==
    \E r1, r2 \in Requests :
        /\ pc[r1] = "done" /\ outcome[r1].end # "none" /\ Len(response[r1]) = 1
        /\ pc[r2] = "done" /\ outcome[r2].tunnel = "fail" /\ Len(response[r2]) = 1

\* Fields that are not empty; none of them contains ':' or '@'.
NonEmptyFields == FieldStrings \ {<<>>}

\* Every character is a digit, and there is one.
IsNumeric(str) == Len(str) > 0 /\ \A i \in DOMAIN str : IsDigit(str[i])

\* user:pass@host:port, optionally behind a scheme, with four non-empty
\* fields and a numeric port.
ValidDescriptor(url) ==
    \E pre \in {<<>>, SchemePrefix} :
    \E f1 \in NonEmptyFields, f2 \in NonEmptyFields,
       f3 \in NonEmptyFields, f4 \in NonEmptyFields :
        /\ IsNumeric(f4)
        /\ url = pre \o Descriptor(f1, f2, f3, f4)

\* C12: for every descriptor user:pass@host:port with four non-empty
\* fields, the module resolves user, password, host and port to exactly
\* those fields, in that order, and a tunnel attempt is given them.
C12_ResolvesFourFields ==
    \A f1 \in NonEmptyFields, f2 \in NonEmptyFields,
       f3 \in NonEmptyFields, f4 \in NonEmptyFields :
        (loaded /\ fixieUrl = Descriptor(f1, f2, f3, f4)) =>
            /\ fixieParts = <<f1, f2, f3, f4>>
            /\ \A r \in Requests :
                pc[r] # "idle" =>
                    /\ proxyOptions[r].userId = f1
                    /\ proxyOptions[r].password = f2
                    /\ proxyOptions[r].ipaddress = f3
                    /\ (f4 = <<"8">> => proxyOptions[r].port = 8)

C12_Witness ==
    /\ loaded
    /\ fixieUrl = Descriptor(<<"u">>, <<"8", "u">>, <<"8">>, <<"8">>)
    /\ \E r \in Requests : pc[r] = "tunnel" /\ proxyOptions[r].port = 8

\* C13: no tunnel is attempted with a descriptor that lacks '@', does not
\* decompose into four non-empty fields or has a non-numeric port.
C13_MalformedRejected ==
    \A r \in Requests : pc[r] # "idle" => ValidDescriptor(fixieUrl)

\* C14: a descriptor with the scheme prefix resolves to the same user,
\* password, host and port as the descriptor without the prefix.
C14_SchemePrefixIgnored ==
    \A f1 \in NonEmptyFields, f2 \in NonEmptyFields,
       f3 \in NonEmptyFields, f4 \in NonEmptyFields :
        (loaded /\ fixieUrl = SchemePrefix \o Descriptor(f1, f2, f3, f4)) =>
            fixieParts = ParseFixieUrl(Descriptor(f1, f2, f3, f4))

\* The subscriptions to "connect" made on the Proxy.
ConnectSubs ==
    {i \in DOMAIN adSubs : adSubs[i].event = "connect" /\ adSubs[i].via = "proxy"}

\* Subscription i has its listener queued with setImmediate.
Queued(i) == \E k \in DOMAIN adQueue : adQueue[k] = i

\* C17: every subscription to "connect" made on the adapted stream, with
\* once or with on, has its listener invoked exactly once on a later turn:
\* it has been invoked at most once, and while it has not been invoked it is
\* scheduled, never left waiting for the event that has already fired.
C17_EveryConnectSubscriptionFires ==
    \A i \in ConnectSubs :
        /\ adSubs[i].calls <= 1
        /\ (adSubs[i].calls = 0 => Queued(i))

\* C18: calls made on the Proxy other than connect and the subscription to
\* "connect" (write, destroy, on, once of another event) leave the socket
\* behind it exactly as the same calls made directly on a socket leave that
\* socket: same connects, state, teardowns, writes and registered listeners.
C18_OtherCallsPassThrough == adTarget = adDirect

C18_Witness ==
    /\ adTarget.writes = 1
    /\ adTarget.sock.state = "destroyed"
    /\ adTarget.sock.teardowns = 1
    /\ \E l \in adTarget.listeners : l.event = "error" /\ l.once
    /\ \A i \in DOMAIN adSubs : adSubs[i].via = "proxy"
    /\ adCalls = MaxCalls

\* C20: the substituted operations never return the socket itself, and the
\* socket's own connect is never reached by calls that start at the Proxy.
C20_SubstitutesReturnAdapter ==
    /\ adHeld # "target"
    /\ adTarget.sock.connects = 1

====
